---- MODULE Spec2Model ----
(***************************************************************************)
(* Model of the notification summarizer (src/langchain_summarizer.py).     *)
(* Python strings are TLA+ strings; str methods are operators that compute *)
(* what the methods compute (lower, strip, split, in, startswith, slices). *)
(* Python dicts are functions from keys to values; an exception is a       *)
(* record [raised |-> TRUE, error |-> e] that every caller must handle or  *)
(* pass on.                                                                *)
(***************************************************************************)
EXTENDS Integers, Sequences, FiniteSets, TLC

VARIABLES
    apiKey,       \* os.getenv("OPENAI_API_KEY") is set
    openaiAvail,  \* OPENAI_AVAILABLE: the openai package imported
    summarizer,   \* the module global _summarizer
    built,        \* how many NotificationSummarizer objects were constructed
    phase,        \* "idle" | "returned": position of the one request in progress
    request,      \* arguments of the last summarize_notification call
    call,         \* what the model backend did during that call
    result,       \* what the call returned (or raised) to its caller
    unit,         \* a component and the input it is applied to
    unitOut,      \* that component's output
    store,        \* the rows of the user_notifications table
    listing       \* the last answer of the summaries endpoint

vars == <<apiKey, openaiAvail, summarizer, built, phase, request, call, result,
          unit, unitOut, store, listing>>

----------------------------------------------------------------------------
(* Bounds of the model *)

\* lengths within Slack of each threshold are drawn
Slack == 1
\* datetime.now() reads a value in 1..MaxTime
MaxTime == 2
\* an application identifier is made of at most MaxTokens name tokens
MaxTokens == 2
\* sentences in a generated text
MaxSentences == 4
\* rows the table can hold
MaxRows == 2
\* dates are day 1..MaxDay
MaxDay == 2
\* the limit of a listing is in 1..MaxLimit
MaxLimit == 2

(* Program constants *)

FallbackLimit == 100
ContextualThreshold == 200

----------------------------------------------------------------------------
(* str helpers *)

Min(S) == CHOOSE i \in S : \A j \in S : i <= j

UpperCase == "ABCDEFGHIJKLMNOPQRSTUVWXYZ"
LowerCase == "abcdefghijklmnopqrstuvwxyz"

\* the lower-case letter of each upper-case letter
LowerOf ==
    [c \in {SubSeq(UpperCase, i, i) : i \in 1..Len(UpperCase)} |->
         LET i == CHOOSE j \in 1..Len(UpperCase) : SubSeq(UpperCase, j, j) = c
         IN  SubSeq(LowerCase, i, i)]

\* str.lower() on one character (ASCII)
LowerChar(c) == IF c \in DOMAIN LowerOf THEN LowerOf[c] ELSE c

\* the characters of s, one by one
Chars(s) == [i \in 1..Len(s) |-> SubSeq(s, i, i)]

RECURSIVE LowerRange(_, _, _)
\* the lower-cased characters a..b of cs, joined
LowerRange(cs, a, b) ==
    IF a > b THEN ""
    ELSE IF a = b THEN LowerChar(cs[a])
    ELSE LET m == (a + b) \div 2
         IN  LowerRange(cs, a, m) \o LowerRange(cs, m + 1, b)

\* str.lower()
Lower(s) == LowerRange(Chars(s), 1, Len(s))

\* the characters ws stand in cs from place i on
MatchAt(cs, ws, i) ==
    \/ Len(ws) = 0
    \/ /\ cs[i] = ws[1]
       /\ \A j \in 2..Len(ws) : cs[i + j - 1] = ws[j]

\* w in s
Contains(s, w) ==
    LET cs == Chars(s)
        ws == Chars(w)
    IN  \E i \in 1..(Len(s) - Len(w) + 1) : MatchAt(cs, ws, i)

\* s.startswith(p)
StartsWith(s, p) == Len(s) >= Len(p) /\ SubSeq(s, 1, Len(p)) = p

\* s.find(sep) + 1: the place of the first occurrence of sep, 0 when none
Find(s, sep) ==
    LET cs == Chars(s)
        ws == Chars(sep)
        at == {i \in 1..(Len(s) - Len(sep) + 1) : MatchAt(cs, ws, i)}
    IN  IF at = {} THEN 0 ELSE Min(at)

RECURSIVE Split(_, _)
\* s.split(sep), sep non-empty
Split(s, sep) ==
    LET i == Find(s, sep)
    IN  IF i = 0 THEN <<s>>
        ELSE <<SubSeq(s, 1, i - 1)>>
                 \o Split(SubSeq(s, i + Len(sep), Len(s)), sep)

IsSpace(c) == c \in {" ", "\t", "\n"}

RECURSIVE LStrip(_)
LStrip(s) ==
    IF Len(s) > 0 /\ IsSpace(SubSeq(s, 1, 1))
    THEN LStrip(SubSeq(s, 2, Len(s))) ELSE s

RECURSIVE RStrip(_)
RStrip(s) ==
    IF Len(s) > 0 /\ IsSpace(SubSeq(s, Len(s), Len(s)))
    THEN RStrip(SubSeq(s, 1, Len(s) - 1)) ELSE s

\* str.strip()
Strip(s) == RStrip(LStrip(s))

\* s[:n]
Prefix(s, n) == IF Len(s) <= n THEN s ELSE SubSeq(s, 1, n)

RECURSIVE Pad(_)
\* a filler of n characters holding no keyword, no separator and no blank
Pad(n) ==
    IF n <= 0 THEN ""
    ELSE IF n = 1 THEN "x"
    ELSE LET h == Pad(n \div 2)
         IN  IF n % 2 = 0 THEN h \o h ELSE h \o h \o "x"

----------------------------------------------------------------------------
(* _get_app_type *)

\* the app_types dict, in its insertion order
AppTypes == <<
    [name |-> "messaging",
     keywords |-> <<"whatsapp", "telegram", "messages", "sms", "messenger",
                    "slack", "discord">>],
    [name |-> "email",
     keywords |-> <<"gmail", "outlook", "mail", "email">>],
    [name |-> "social",
     keywords |-> <<"facebook", "instagram", "twitter", "linkedin",
                    "snapchat", "tiktok">>],
    [name |-> "news",
     keywords |-> <<"news", "bbc", "cnn", "reuters", "medium">>],
    [name |-> "productivity",
     keywords |-> <<"calendar", "reminder", "notes", "drive", "dropbox">>],
    [name |-> "entertainment",
     keywords |-> <<"youtube", "spotify", "netflix", "music">>],
    [name |-> "system",
     keywords |-> <<"android", "system", "settings", "security">>] >>

\* any(keyword in s for keyword in keywords)
AnyKeyword(keywords, s) ==
    LET cs == Chars(s)
        \* a keyword can only stand where its first character does
        firsts == {SubSeq(keywords[k], 1, 1) : k \in 1..Len(keywords)}
    IN  \E i \in 1..Len(s) :
            /\ cs[i] \in firsts
            /\ \E k \in 1..Len(keywords) :
                   /\ i + Len(keywords[k]) - 1 <= Len(s)
                   /\ MatchAt(cs, Chars(keywords[k]), i)

RECURSIVE ScanAppTypes(_, _)
\* the for loop over app_types.items(), from the i-th item on
ScanAppTypes(i, package_lower) ==
    IF i > Len(AppTypes) THEN "other"
    ELSE IF AnyKeyword(AppTypes[i].keywords, package_lower)
         THEN AppTypes[i].name
         ELSE ScanAppTypes(i + 1, package_lower)

GetAppTypeCaseSensitive(package_name) == ScanAppTypes(1, package_name)

GetAppType(package_name) == ScanAppTypes(1, Lower(package_name))

----------------------------------------------------------------------------
(* _contains_sentiment_indicators *)

SentimentWords ==
    <<"urgent", "important", "critical", "warning", "error", "failed",
      "congratulations", "success", "completed", "approved", "rejected",
      "love", "hate", "angry", "happy", "sad", "excited">>

ContainsSentimentIndicators(text) == AnyKeyword(SentimentWords, Lower(text))

----------------------------------------------------------------------------
(* _fallback_summary *)

ImportantWords ==
    <<"urgent", "important", "update", "new", "alert", "reminder">>

\* the scan starting at the second sentence
ImportantAtSkippingFirst(sentences) ==
    {i \in 2..Len(sentences) :
         LET sentence_lower == Chars(Lower(sentences[i]))
         IN  \E k \in 1..Len(ImportantWords) :
                 LET word_lower == Chars(Lower(ImportantWords[k]))
                 IN  \E j \in 1..(Len(sentence_lower) - Len(word_lower) + 1) :
                         MatchAt(sentence_lower, word_lower, j)}

\* the sentences that hold an important word, as places in the list
ImportantAt(sentences) ==
    {i \in 1..Len(sentences) :
         LET sentence_lower == Chars(Lower(sentences[i]))
         IN  \E k \in 1..Len(ImportantWords) :
                 LET word_lower == Chars(Lower(ImportantWords[k]))
                 IN  \E j \in 1..(Len(sentence_lower) - Len(word_lower) + 1) :
                         MatchAt(sentence_lower, word_lower, j)}

FallbackSummaryTruncating(text) ==
    IF Len(text) < FallbackLimit THEN text
    ELSE Prefix(text, FallbackLimit) \o "..."

FallbackSummary(text) ==
    IF Len(text) <= FallbackLimit THEN text
    ELSE LET sentences == Split(text, ". ")
             at == ImportantAt(sentences)
             \* None when the loop never breaks
             found == at # {}
             important_sentence == sentences[Min(at)]
         IN  IF Len(sentences) <= 2
             THEN IF Len(text) > FallbackLimit
                  THEN Prefix(text, FallbackLimit) \o "..."
                  ELSE text
             ELSE IF found /\ important_sentence # ""
             THEN sentences[1] \o ". " \o important_sentence \o "."
             ELSE sentences[1]
                      \o (IF Len(sentences) > 1
                          THEN ". " \o sentences[2] \o "."
                          ELSE "")

----------------------------------------------------------------------------
(* _parse_sentiment_response *)

\* the value is everything after the prefix, as split(":", 1) would give
FieldValueWhole(part) ==
    LET i == Find(part, ":")
    IN  IF i = 0
        THEN [raised |-> TRUE, error |-> "list index out of range"]
        ELSE [raised |-> FALSE,
              value |-> Lower(Strip(SubSeq(part, i + 1, Len(part))))]

\* part.split(":")[1].strip().lower(); [1] raises IndexError on a short list
FieldValue(part) ==
    LET fields == Split(part, ":")
    IN  IF Len(fields) < 2
        THEN [raised |-> TRUE, error |-> "list index out of range"]
        ELSE [raised |-> FALSE, value |-> Lower(Strip(fields[2]))]

RECURSIVE ParseParts(_, _, _)
\* the for loop over parts[1:], from the i-th part on; acc holds the
\* local variables urgency and sentiment
ParseParts(parts, i, acc) ==
    IF i > Len(parts) THEN acc
    ELSE IF StartsWith(parts[i], "Urgency:")
    THEN LET v == FieldValue(parts[i])
         IN  IF v.raised THEN [acc EXCEPT !.raised = TRUE]
             ELSE ParseParts(parts, i + 1, [acc EXCEPT !.urgency = v.value])
    ELSE IF StartsWith(parts[i], "Sentiment:")
    THEN LET v == FieldValue(parts[i])
         IN  IF v.raised THEN [acc EXCEPT !.raised = TRUE]
             ELSE ParseParts(parts, i + 1, [acc EXCEPT !.sentiment = v.value])
    ELSE ParseParts(parts, i + 1, acc)

ParseSentimentResponse(response) ==
    LET parts == Split(response, " | ")
        summary == parts[1]
        acc == ParseParts(parts, 2, [urgency |-> "medium",
                                     sentiment |-> "neutral",
                                     raised |-> FALSE])
    IN  IF ~acc.raised
        THEN [summary |-> summary, urgency |-> acc.urgency,
              sentiment |-> acc.sentiment, confidence |-> "high"]
        ELSE [summary |-> response, urgency |-> "medium",
              sentiment |-> "neutral", confidence |-> "low"]

----------------------------------------------------------------------------
(* Calls: a call returns a value or raises, and counts the requests it     *)
(* sent to the model backend and whether one of them failed                *)

Return(v, calls, failed) ==
    [raised |-> FALSE, value |-> v, calls |-> calls, failed |-> failed]

Raise(e, calls, failed) ==
    [raised |-> TRUE, error |-> e, calls |-> calls, failed |-> failed]

\* _call_openai. outcome is what the backend does with the one request:
\* it replies with a text, replies with no text (content is None, on which
\* .strip() raises), or the request fails
CallOpenAI(client, outcome) ==
    IF ~client THEN Raise("OpenAI client not available", 0, FALSE)
    ELSE IF outcome.kind = "reply"
    THEN Return(Strip(outcome.content), 1, FALSE)
    ELSE IF outcome.kind = "null"
    THEN Raise("'NoneType' object has no attribute 'strip'", 1, TRUE)
    ELSE Raise(outcome.error, 1, TRUE)

\* summarize_basic sending the request again after a failure
SummarizeBasicRetrying(client, text, outcome) ==
    IF ~client THEN Return(FallbackSummary(text), 0, FALSE)
    ELSE LET r == CallOpenAI(client, outcome)
             again == CallOpenAI(client, outcome)
         IN  IF ~r.raised THEN Return(r.value, r.calls, r.failed)
             ELSE IF again.raised
             THEN Return(FallbackSummary(text), r.calls + again.calls, TRUE)
             ELSE Return(again.value, r.calls + again.calls, TRUE)

\* summarize_basic without its except clause
SummarizeBasicNoCatch(client, text, outcome) ==
    IF ~client THEN Return(FallbackSummary(text), 0, FALSE)
    ELSE CallOpenAI(client, outcome)

SummarizeBasic(client, text, outcome) ==
    IF ~client THEN Return(FallbackSummary(text), 0, FALSE)
    ELSE LET r == CallOpenAI(client, outcome)
         IN  IF r.raised
             THEN Return(FallbackSummary(text), r.calls, r.failed)
             ELSE Return(r.value, r.calls, r.failed)

SummarizeContextual(client, package_name, title, content, outcome, now) ==
    IF ~client
    THEN Return([summary |-> FallbackSummary(content),
                 app_type |-> GetAppType(package_name),
                 confidence |-> "low"], 0, FALSE)
    ELSE LET r == CallOpenAI(client, outcome)
         IN  IF r.raised
             THEN Return([summary |-> FallbackSummary(content),
                          app_type |-> GetAppType(package_name),
                          confidence |-> "low",
                          error |-> r.error], r.calls, r.failed)
             ELSE Return([summary |-> r.value,
                          app_type |-> GetAppType(package_name),
                          confidence |-> "high",
                          timestamp |-> now], r.calls, r.failed)

SummarizeWithSentiment(client, text, outcome, now) ==
    IF ~client
    THEN Return([summary |-> FallbackSummary(text),
                 urgency |-> "medium",
                 sentiment |-> "neutral",
                 confidence |-> "low"], 0, FALSE)
    ELSE LET r == CallOpenAI(client, outcome)
         IN  IF r.raised
             THEN Return([summary |-> FallbackSummary(text),
                          urgency |-> "medium",
                          sentiment |-> "neutral",
                          confidence |-> "low",
                          error |-> r.error], r.calls, r.failed)
             ELSE Return(("timestamp" :> now)
                             @@ ParseSentimentResponse(r.value),
                         r.calls, r.failed)

\* the selection at the head of smart_summarize, with >= for >
SelectStrategyInclusive(text_length, app_type, content) ==
    IF text_length >= ContextualThreshold
           \/ app_type \in {"email", "news", "social"}
    THEN "contextual"
    ELSE IF ContainsSentimentIndicators(content) THEN "sentiment"
    ELSE "basic"

\* the if / elif / else at the head of smart_summarize
SelectStrategy(text_length, app_type, content) ==
    IF text_length > ContextualThreshold
           \/ app_type \in {"email", "news", "social"}
    THEN "contextual"
    ELSE IF ContainsSentimentIndicators(content) THEN "sentiment"
    ELSE "basic"

\* a quotient of two lengths, kept exact as numerator and denominator
CompressionRatioUnguarded(summary, text_length) ==
    IF text_length = 0
    THEN Raise("division by zero", 0, FALSE)
    ELSE Return([num |-> Len(summary), den |-> text_length], 0, FALSE)

\* len(summary) / max(text_length, 1)
CompressionRatio(summary, text_length) ==
    LET den == IF text_length > 1 THEN text_length ELSE 1
    IN  IF den = 0
        THEN Raise("division by zero", 0, FALSE)
        ELSE Return([num |-> Len(summary), den |-> den], 0, FALSE)

\* result.get(key, default)
Get(d, key, default) == IF key \in DOMAIN d THEN d[key] ELSE default

\* smart_summarize; now is the clock's reading during the call
SmartSummarize(client, package_name, title, content, raw_text, outcome, now) ==
    LET text_length == Len(content)
        app_type == GetAppType(package_name)
        strategy == SelectStrategy(text_length, app_type, content)
        inner ==
            IF strategy = "contextual"
            THEN SummarizeContextual(client, package_name, title, content,
                                     outcome, now)
            ELSE IF strategy = "sentiment"
            THEN SummarizeWithSentiment(client, content, outcome, now)
            ELSE SummarizeBasic(client, content, outcome)
    IN  IF inner.raised THEN inner
        ELSE LET chosen ==
                     IF strategy = "basic"
                     THEN [summary |-> inner.value,
                           strategy |-> "basic",
                           app_type |-> app_type,
                           confidence |-> "medium"]
                     ELSE ("strategy" :> strategy) @@ inner.value
                 ratio == CompressionRatio(Get(chosen, "summary", ""),
                                           text_length)
             IN  IF ratio.raised
                 THEN Raise(ratio.error, inner.calls, inner.failed)
                 ELSE Return([original_length |-> text_length,
                              compression_ratio |-> ratio.value,
                              processed_at |-> now] @@ chosen,
                             inner.calls, inner.failed)

\* NotificationSummarizer(): the client exists when a key is set and the
\* openai package was imported
NewSummarizer(key, available) ==
    [built |-> TRUE, client |-> (key /\ available)]

\* get_summarizer constructing a summarizer on every call
ConstructsAlways(global) == TRUE

\* get_summarizer's test: _summarizer is None
Constructs(global) == ~global.built

\* get_summarizer: the global, constructed on first use
GetSummarizer(global, key, available) ==
    IF Constructs(global) THEN NewSummarizer(key, available) ELSE global

----------------------------------------------------------------------------
(* Inputs *)

\* name tokens of application identifiers: keywords of every category,
\* in several spellings, and names that are no keyword
Tokens ==
    {"whatsapp", "slack", "gmail", "email", "facebook", "tiktok", "news",
     "medium", "calendar", "reminder", "youtube", "music", "android",
     "security", "unknown", "app", "WhatsApp", "GMail", "NEWS"}

RECURSIVE AppIdsOf(_)
\* identifiers "com.<token>. ... .<token>" of at most n tokens
AppIdsOf(n) ==
    IF n = 0 THEN {"com"}
    ELSE LET shorter == AppIdsOf(n - 1)
         IN  shorter \cup {p \o "." \o t : p \in shorter, t \in Tokens}

AppIds == AppIdsOf(MaxTokens)

\* how a text starts (or ends): sentences, important words, sentiment words
Flavours ==
    {"", "URGENT ", "Payment failed ", "Aa. ", "Aa. Bb. Cc. ",
     "Aa. Bb. New cc. Dd. ", "Alert aa. Bb. Cc. ", "I love it. Bb. Cc. "}

Lengths ==
    (0..Slack)
        \cup ((FallbackLimit - Slack)..(FallbackLimit + Slack))
        \cup ((ContextualThreshold - Slack)..(ContextualThreshold + Slack))

\* the text of n characters that starts (front) or ends with flavour f
TextOf(f, n, front) ==
    IF n <= Len(f) THEN Prefix(f, n)
    ELSE IF front THEN f \o Pad(n - Len(f))
    ELSE Pad(n - Len(f)) \o f

Texts == {TextOf(f, n, front) : f \in Flavours, n \in Lengths,
                                front \in BOOLEAN}

\* sentences that texts are put together from: none holds ". "
PlainSentences == {"", "Aa", "Bb " \o Pad(FallbackLimit)}
KeywordSentences == {"NEW offer " \o Pad(40), "Please Update"}
SentencePool == PlainSentences \cup KeywordSentences

SentenceLists == UNION {[1..n -> SentencePool] : n \in 1..MaxSentences}

\* the text whose split on ". " is ss
RECURSIVE Join(_)
Join(ss) ==
    IF Len(ss) = 1 THEN ss[1]
    ELSE ss[1] \o ". " \o Join(Tail(ss))

\* a structured reply's fields; Absent: the reply has no such segment
Absent == "<absent>"
ReplySummaries == {"Meeting at 5pm", "Disk full", "a|b", ""}
ReplyLevels ==
    {Absent, "High", "LOW", " medium ", "", "High: now", "Critical"}
ReplyValues ==
    {Absent, "Positive", "NEGATIVE", " neutral ", "", "Mixed: unsure"}
\* how a segment's prefix is written
UrgencyPrefixes == {"Urgency: ", "Urgency:", "urgency: "}

\* "<summary> | Urgency: <level> | Sentiment: <value>", a segment left out
\* when its field is Absent
FormatReply(summary, prefix, level, value) ==
    summary
        \o (IF level = Absent THEN "" ELSE " | " \o prefix \o level)
        \o (IF value = Absent THEN "" ELSE " | Sentiment: " \o value)

ReplyForms ==
    {[summary |-> s, prefix |-> p, level |-> l, value |-> v,
      raw |-> FormatReply(s, p, l, v)] :
         s \in ReplySummaries, p \in UrgencyPrefixes,
         l \in ReplyLevels, v \in ReplyValues}

-----------------------------------------------------------------------------
(* The user_notifications table (src/postgress.py) and the summaries      *)
(* endpoint (src/main.py).  A datetime is a number of ticks, DayTicks to a *)
(* day; a date string names a day, and strptime gives the day's first tick. *)

\* ticks in timedelta(days=1)
DayTicks == 2

\* a date parameter that was not given
NoDate == 0

NoListing == [done |-> FALSE]

Users == {"a@example.com", "b@example.com"}
Days == 1..MaxDay
Limits == 1..MaxLimit

\* datetime.strptime(date, "%Y-%m-%d")
StartOfDay(date) == date * DayTicks

Timestamps == {StartOfDay(d) + t : d \in Days, t \in 0..(DayTicks - 1)}

\* the timestamp strings of a request: ISO strings, and one that
\* fromisoformat rejects
TimestampStrings ==
    {[iso |-> TRUE, at |-> t] : t \in Timestamps} \cup {[iso |-> FALSE]}

\* save_notification_to_db: the table with the new row
SaveNotificationToDb(table, user_email, timestamp_str, utcnow) ==
    LET timestamp == IF timestamp_str.iso THEN timestamp_str.at ELSE utcnow
    IN  Append(table, [id |-> Len(table) + 1, user_email |-> user_email,
                       timestamp |-> timestamp])

\* order_by(timestamp.desc()).limit(limit).all(): every answer the database
\* may give, rows of equal timestamp coming in any order
OrderDescLimit(rows, limit) ==
    LET n == Min({limit, Cardinality(rows)})
    IN  {q \in [1..n -> rows] :
            /\ \A i, j \in 1..n : i < j =>
                   /\ q[i] # q[j]
                   /\ q[i].timestamp >= q[j].timestamp
            /\ \A r \in rows : \A i \in 1..n :
                   (\A j \in 1..n : q[j] # r) => q[i].timestamp >= r.timestamp}

RowsOf(table) == {table[i] : i \in 1..Len(table)}

\* get_user_notifications
GetUserNotifications(table, user_email, limit) ==
    OrderDescLimit({r \in RowsOf(table) : r.user_email = user_email}, limit)

\* get_user_notifications_by_date
GetUserNotificationsByDate(table, user_email, start_date, end_date, limit) ==
    LET start_datetime == StartOfDay(start_date)
        before == IF end_date # NoDate
                  THEN StartOfDay(end_date) + DayTicks
                  ELSE start_datetime + DayTicks
    IN  OrderDescLimit({r \in RowsOf(table) :
                            /\ r.user_email = user_email
                            /\ r.timestamp >= start_datetime
                            /\ r.timestamp < before}, limit)

\* get_summaries_by_date: the notifications it lists
GetSummariesByDate(table, user_email, date, start_date, end_date, limit) ==
    IF date # NoDate
    THEN GetUserNotificationsByDate(table, user_email, date, NoDate, limit)
    ELSE IF start_date # NoDate /\ end_date # NoDate
    THEN GetUserNotificationsByDate(table, user_email, start_date, end_date, limit)
    ELSE IF start_date # NoDate
    THEN GetUserNotificationsByDate(table, user_email, start_date, NoDate, limit)
    ELSE GetUserNotifications(table, user_email, limit)

\* the date parameters of a call of the endpoint
DateFilters ==
    {[date |-> d, start_date |-> s, end_date |-> e] :
        d \in {NoDate} \cup Days, s \in {NoDate} \cup Days, e \in {NoDate} \cup Days}

SaveNotification ==
    /\ ~listing.done
    /\ Len(store) < MaxRows
    /\ \E user_email \in Users, timestamp_str \in TimestampStrings,
          utcnow \in Timestamps :
           \* utcnow is read only when the string does not parse
           /\ timestamp_str.iso => utcnow = StartOfDay(1)
           /\ store' = SaveNotificationToDb(store, user_email, timestamp_str, utcnow)
    /\ UNCHANGED <<apiKey, openaiAvail, summarizer, built, phase, request,
                   call, result, unit, unitOut, listing>>

Summaries ==
    /\ ~listing.done
    /\ \E user_email \in Users, f \in DateFilters, limit \in Limits :
       \E notifications \in GetSummariesByDate(store, user_email, f.date,
                                              f.start_date, f.end_date, limit) :
           listing' = [done |-> TRUE, user_email |-> user_email,
                       date |-> f.date, start_date |-> f.start_date,
                       end_date |-> f.end_date, limit |-> limit,
                       summaries |-> notifications]
    /\ UNCHANGED <<apiKey, openaiAvail, summarizer, built, phase, request,
                   call, result, unit, unitOut, store>>

\* the answer has been sent
SummariesDone ==
    /\ listing.done
    /\ listing' = NoListing
    /\ UNCHANGED <<apiKey, openaiAvail, summarizer, built, phase, request,
                   call, result, unit, unitOut, store>>

InitStore ==
    /\ apiKey = FALSE /\ openaiAvail = FALSE
    /\ summarizer = [built |-> FALSE]
    /\ built = 0
    /\ phase = "idle"
    /\ request = [package_name |-> "", title |-> "", content |-> ""]
    /\ call = [calls |-> 0, failed |-> FALSE, constructed |-> FALSE]
    /\ result = [raised |-> FALSE, returned |-> FALSE]
    /\ unit = [fn |-> "none"]
    /\ unitOut = [done |-> FALSE]
    /\ store = << >>
    /\ listing = NoListing

NextStore == SaveNotification \/ Summaries \/ SummariesDone

SpecStore == InitStore /\ [][NextStore]_vars

----------------------------------------------------------------------------
(* The components applied one at a time to a drawn input *)

NoUnit == [fn |-> "none"]
Pending == [done |-> FALSE]

Units ==
    {[fn |-> "classify", arg |-> id] : id \in AppIds}
        \cup {[fn |-> "fallback", arg |-> t] : t \in Texts}
        \cup {[fn |-> "fallback", arg |-> Join(ss), sentences |-> ss] :
                  ss \in SentenceLists}
        \cup {[fn |-> "parse", arg |-> f.raw, form |-> f] : f \in ReplyForms}

Classify ==
    /\ unit.fn = "classify" /\ ~unitOut.done
    /\ unitOut' = [done |-> TRUE, value |-> GetAppType(unit.arg)]
    /\ UNCHANGED <<apiKey, openaiAvail, summarizer, built, phase, request,
                   call, result, unit, store, listing>>

Fallback ==
    /\ unit.fn = "fallback" /\ ~unitOut.done
    /\ unitOut' = [done |-> TRUE, value |-> FallbackSummary(unit.arg)]
    /\ UNCHANGED <<apiKey, openaiAvail, summarizer, built, phase, request,
                   call, result, unit, store, listing>>

Parse ==
    /\ unit.fn = "parse" /\ ~unitOut.done
    /\ unitOut' = [done |-> TRUE, value |-> ParseSentimentResponse(unit.arg)]
    /\ UNCHANGED <<apiKey, openaiAvail, summarizer, built, phase, request,
                   call, result, unit, store, listing>>

NoRequest == [package_name |-> "", title |-> "", content |-> ""]
NoCall == [calls |-> 0, failed |-> FALSE, constructed |-> FALSE]
NoResult == [raised |-> FALSE, returned |-> FALSE]

InitUnits ==
    /\ apiKey = FALSE /\ openaiAvail = FALSE
    /\ summarizer = [built |-> FALSE]
    /\ built = 0
    /\ phase = "idle"
    /\ request = NoRequest
    /\ call = NoCall
    /\ result = NoResult
    /\ unit \in Units
    /\ unitOut = Pending
    /\ store = << >>
    /\ listing = NoListing

NextUnits == Classify \/ Fallback \/ Parse

SpecUnits == InitUnits /\ [][NextUnits]_vars

----------------------------------------------------------------------------
(* Claims about the components *)

\* the order of the categories and the keywords of each, as the claims
\* name them
CategoryOrder ==
    <<"messaging", "email", "social", "news", "productivity",
      "entertainment", "system">>

KeywordsOf(category) ==
    LET i == CHOOSE j \in 1..Len(AppTypes) : AppTypes[j].name = category
    IN  {AppTypes[i].keywords[k] : k \in 1..Len(AppTypes[i].keywords)}

Matches(category, id) == \E w \in KeywordsOf(category) : Contains(id, w)

\* C7: classify(app_id) is the first category, in the order messaging,
\* email, social, news, productivity, entertainment, system, one of whose
\* keywords is a substring of the lower-cased identifier, and other when
\* there is none; com.whatsapp is messaging and com.unknown.app is other.
C7_ClassifyFirstMatch ==
    (unit.fn = "classify" /\ unitOut.done) =>
        LET id == Lower(unit.arg)
            out == unitOut.value
        IN  /\ Len(AppTypes) = Len(CategoryOrder)
            /\ \A i \in 1..Len(CategoryOrder) :
                   (out = CategoryOrder[i])
                       <=> /\ Matches(CategoryOrder[i], id)
                           /\ \A j \in 1..(i - 1) :
                                  ~Matches(CategoryOrder[j], id)
            /\ (out = "other")
                   <=> \A i \in 1..Len(CategoryOrder) :
                           ~Matches(CategoryOrder[i], id)
            /\ (unit.arg = "com.whatsapp" => out = "messaging")
            /\ (unit.arg = "com.unknown.app" => out = "other")

\* an identifier that matches email and system keywords, in upper case
C7_Witness ==
    /\ unit.fn = "classify" /\ unitOut.done
    /\ unit.arg = "com.android.GMail"
    /\ unitOut.value = "email"

\* C8: a text of at most 100 characters is returned unchanged by the
\* fallback summarizer, at exactly 100 characters and when empty too.
C8_FallbackShortUnchanged ==
    (unit.fn = "fallback" /\ unitOut.done /\ Len(unit.arg) <= 100) =>
        unitOut.value = unit.arg

C8_Witness ==
    /\ unit.fn = "fallback" /\ unitOut.done
    /\ Len(unit.arg) = 100
    /\ unitOut.value = unit.arg

\* C4: a response with no " | " separator parses to the raw response,
\* urgency medium, sentiment neutral and confidence low.
C4_NoSeparatorLowConfidence ==
    (unit.fn = "parse" /\ unitOut.done /\ ~Contains(unit.arg, " | ")) =>
        unitOut.value = [summary |-> unit.arg, urgency |-> "medium",
                         sentiment |-> "neutral", confidence |-> "low"]

\* the field a segment written as prefix + text is read as, when the whole
\* text is the field
WholeField(written, prefix, text, default) ==
    IF text = Absent \/ ~StartsWith(prefix, written) THEN default
    ELSE Lower(Strip(text))

\* the same when the text counts up to its first colon only
FieldToColon(written, prefix, text, default) ==
    IF text = Absent \/ ~StartsWith(prefix, written) THEN default
    ELSE LET i == Find(text, ":")
         IN  Lower(Strip(IF i = 0 THEN text ELSE SubSeq(text, 1, i - 1)))

\* C5 as stated: "<summary> | Urgency: <level> | Sentiment: <value>" parses
\* to the summary, the lower-cased trimmed level, the lower-cased trimmed
\* value and confidence high; an absent field takes its default.
C5_ParseStructuredWhole ==
    (unit.fn = "parse" /\ unitOut.done) =>
        unitOut.value =
            [summary |-> unit.form.summary,
             urgency |-> WholeField("Urgency:", unit.form.prefix,
                                    unit.form.level, "medium"),
             sentiment |-> WholeField("Sentiment:", "Sentiment: ",
                                      unit.form.value, "neutral"),
             confidence |-> "high"]

\* C5 amended: the level and the value are read up to their first colon.
C5_ParseStructured ==
    (unit.fn = "parse" /\ unitOut.done) =>
        unitOut.value =
            [summary |-> unit.form.summary,
             urgency |-> FieldToColon("Urgency:", unit.form.prefix,
                                      unit.form.level, "medium"),
             sentiment |-> FieldToColon("Sentiment:", "Sentiment: ",
                                        unit.form.value, "neutral"),
             confidence |-> "high"]

C5_Witness ==
    /\ unit.fn = "parse" /\ unitOut.done
    /\ unit.arg = "Meeting at 5pm | Urgency: High | Sentiment: Positive"
    /\ unitOut.value = [summary |-> "Meeting at 5pm", urgency |-> "high",
                        sentiment |-> "positive", confidence |-> "high"]

----------------------------------------------------------------------------
(* Requests *)

Packages == {"com.whatsapp", "com.unknown.app", "com.GMail", "com.bbc.news"}

ContentFlavours ==
    {"", "URGENT ", "Payment failed ", "Aa. Bb. Cc. ", "Aa. Bb. New cc. Dd. "}

Contents ==
    {TextOf(f, n, TRUE) : f \in ContentFlavours, n \in Lengths}
        \cup {Pad(2 * ContextualThreshold)}

Requests ==
    {[package_name |-> p, title |-> "Title", content |-> c] :
         p \in Packages, c \in Contents}

Outcomes ==
    {[kind |-> "reply", content |-> r] :
         r \in {"Meeting at 5pm | Urgency: High | Sentiment: Positive",
                "  Call mom \n", "",
                "Disk full | Urgency: Critical: now", Pad(40)}}
        \cup {[kind |-> "null"],
              [kind |-> "error", error |-> "Connection error."]}

\* no request is sent to the backend
NoOutcome == [kind |-> "unused"]

Times == 1..MaxTime

\* summarize_notification: one request, start to return
SummarizeNotification(req, outcome, now) ==
    /\ phase = "idle" /\ unit.fn = "none"
    /\ \E s \in {GetSummarizer(summarizer, apiKey, openaiAvail)} :
       \E r \in {SmartSummarize(s.client, req.package_name, req.title,
                                req.content, req.content, outcome, now)} :
           /\ summarizer' = s
           /\ built' = IF Constructs(summarizer) THEN built + 1 ELSE built
           /\ request' = req
           /\ call' = [calls |-> r.calls, failed |-> r.failed,
                              constructed |-> Constructs(summarizer)]
           /\ result' = IF r.raised
                        THEN [raised |-> TRUE, returned |-> FALSE,
                              error |-> r.error]
                        ELSE [raised |-> FALSE, returned |-> TRUE,
                              value |-> r.value]
    /\ phase' = "returned"
    /\ UNCHANGED <<apiKey, openaiAvail, unit, unitOut, store, listing>>

\* the caller is done with the result; nothing of the request is kept
Finish ==
    /\ phase = "returned"
    /\ phase' = "idle"
    /\ request' = NoRequest
    /\ call' = NoCall
    /\ result' = NoResult
    /\ UNCHANGED <<apiKey, openaiAvail, summarizer, built, unit, unitOut,
                   store, listing>>

Init ==
    /\ apiKey \in BOOLEAN
    /\ openaiAvail \in BOOLEAN
    /\ summarizer = [built |-> FALSE]
    /\ built = 0
    /\ phase = "idle"
    /\ request = NoRequest
    /\ call = NoCall
    /\ result = NoResult
    /\ unit = NoUnit
    /\ unitOut = Pending
    /\ store = << >>
    /\ listing = NoListing

\* a request arrives; the backend has an outcome to draw only when a
\* client will call it
Summarize ==
    \E req \in Requests, now \in Times :
        \E outcome \in
                IF GetSummarizer(summarizer, apiKey, openaiAvail).client
                THEN Outcomes ELSE {NoOutcome} :
            SummarizeNotification(req, outcome, now)

Next == Summarize \/ Finish

Spec == Init /\ [][Next]_vars

----------------------------------------------------------------------------
(* Claims about summarize *)

\* the result dict of a call that returned
Returned == phase = "returned" /\ result.returned

\* C1: with no client configured, every call to summarize returns
\* confidence low and the fallback summary of the content, whichever
\* strategy is selected.
C1_NoClientLowConfidence ==
    (phase = "returned" /\ ~summarizer.client) =>
        /\ result.returned
        /\ result.value.confidence = "low"
        /\ result.value.summary = FallbackSummary(request.content)

\* C2: when the model call fails, summarize raises nothing and returns a
\* result whose summary is the fallback summary of the content, for every
\* strategy.
C2_FailureDegradesToFallback ==
    (phase = "returned" /\ call.failed) =>
        /\ ~result.raised
        /\ result.returned
        /\ result.value.summary = FallbackSummary(request.content)

\* a failed call on the basic path, with a content the fallback shortens
C2_Witness ==
    /\ Returned /\ call.failed
    /\ result.value.strategy = "basic"
    /\ Len(request.content) > 100
    /\ result.value.summary # request.content

\* C3: whenever a model call fails, the result has confidence low and an
\* error field, for each strategy, basic included.
C3_FailureLowConfidenceWithError ==
    (phase = "returned" /\ call.failed) =>
        /\ result.returned
        /\ result.value.confidence = "low"
        /\ "error" \in DOMAIN result.value

SentimentWordSet == {SentimentWords[k] : k \in 1..Len(SentimentWords)}

\* C6: the strategy is contextual iff the content is longer than 200 or
\* the app type is email, news or social; otherwise sentiment iff the
\* content holds, in any case, a sentiment-indicator word; otherwise basic.
\* With app type other and no indicator word, 201 characters give
\* contextual and 200 give basic.
C6_StrategySelection ==
    (phase = "returned") =>
        /\ result.returned
        /\ LET st == result.value.strategy
               n == Len(request.content)
               app == GetAppType(request.package_name)
               ctx == n > 200 \/ app \in {"email", "news", "social"}
               content_lower == Lower(request.content)
               sent == \E w \in SentimentWordSet : Contains(content_lower, w)
           IN  /\ st \in {"contextual", "sentiment", "basic"}
               /\ (st = "contextual") <=> ctx
               /\ (st = "sentiment") <=> (~ctx /\ sent)
               /\ (st = "basic") <=> (~ctx /\ ~sent)
               /\ (app = "other" /\ ~sent /\ n = 201) => st = "contextual"
               /\ (app = "other" /\ ~sent /\ n = 200) => st = "basic"

C6_Witness ==
    /\ Returned
    /\ request.package_name = "com.unknown.app"
    /\ Len(request.content) = 200
    /\ result.value.strategy = "basic"

\* C9: the summary of every result of summarize is non-empty, for every
\* input and on every path.
C9_SummaryNonEmpty ==
    (phase = "returned") =>
        /\ result.returned
        /\ result.value.summary # ""

\* C10: every result carries original_length = len(content), a processing
\* timestamp and compression_ratio = len(summary) / max(len(content), 1),
\* which is defined and >= 0 for empty content too; 400 characters
\* summarized in 40 give 0.1.
C10_Metadata ==
    (phase = "returned") =>
        /\ result.returned
        /\ LET v == result.value
               n == Len(request.content)
           IN  /\ v.original_length = n
               /\ "processed_at" \in DOMAIN v
               /\ v.processed_at \in Times
               /\ v.compression_ratio.num = Len(v.summary)
               /\ v.compression_ratio.den = (IF n >= 1 THEN n ELSE 1)
               /\ v.compression_ratio.den > 0
               /\ v.compression_ratio.num >= 0
               /\ (n = 400 /\ Len(v.summary) = 40)
                      => 10 * v.compression_ratio.num
                             = 1 * v.compression_ratio.den

C10_Witness ==
    /\ Returned
    /\ Len(request.content) = 400
    /\ Len(result.value.summary) = 40
    /\ result.value.compression_ratio = [num |-> 40, den |-> 400]

\* C11: in every result of summarize, urgency is absent or one of low,
\* medium, high, and sentiment is absent or one of positive, neutral,
\* negative, whatever the model replies.
C11_UrgencySentimentInRange ==
    (phase = "returned") =>
        /\ result.returned
        /\ ("urgency" \in DOMAIN result.value
               => result.value.urgency \in {"low", "medium", "high"})
        /\ ("sentiment" \in DOMAIN result.value
               => result.value.sentiment \in {"positive", "neutral", "negative"})

\* C14: a call to summarize sends no request to the model when no client
\* is configured and exactly one otherwise; a failed request is not sent
\* again, and the fallback summary is returned at once.
C14_AtMostOneModelCall ==
    (phase = "returned") =>
        /\ call.calls = (IF summarizer.client THEN 1 ELSE 0)
        /\ call.failed =>
               /\ call.calls = 1
               /\ result.returned
               /\ result.value.summary = FallbackSummary(request.content)

C14_Witness ==
    /\ Returned /\ summarizer.client
    /\ call.failed /\ call.calls = 1
    /\ result.value.strategy = "sentiment"
    /\ result.value.summary = FallbackSummary(request.content)

\* summary_metadata of the response of receive_notification
SummaryMetadata(summary_result) ==
    [strategy   |-> Get(summary_result, "strategy", "unknown"),
     confidence |-> Get(summary_result, "confidence", "medium"),
     app_type   |-> Get(summary_result, "app_type", "other"),
     urgency    |-> Get(summary_result, "urgency", "None"),
     sentiment  |-> Get(summary_result, "sentiment", "None")]

\* C12: for every notification and every selected strategy, the app_type
\* of the result of summarize, and the app_type reported in
\* summary_metadata, is the classification of the notification's app id.
C12_AppTypeIsClassification ==
    (phase = "returned") =>
        /\ result.returned
        /\ "app_type" \in DOMAIN result.value
        /\ result.value.app_type = GetAppType(request.package_name)
        /\ SummaryMetadata(result.value).app_type = GetAppType(request.package_name)

-----------------------------------------------------------------------------
(* Claims about the fallback summary of long texts *)

\* the places of the sentences built with one of the important words
KeywordPlaces(ss) == {i \in 1..Len(ss) : ss[i] \in KeywordSentences}

\* C13: for a text of more than 100 characters split on ". ", the fallback
\* summary is the first 100 characters plus "..." with at most 2
\* sentences; with more than 2 it is the first sentence joined with the
\* earliest sentence (the first included) holding, in any case, an
\* important word, and the first two sentences joined when none does.
C13_FallbackLong ==
    (/\ unit.fn = "fallback" /\ "sentences" \in DOMAIN unit
     /\ unitOut.done /\ Len(unit.arg) > FallbackLimit) =>
        LET ss == unit.sentences
            hits == KeywordPlaces(ss)
        IN  unitOut.value =
                IF Len(ss) <= 2
                THEN SubSeq(unit.arg, 1, FallbackLimit) \o "..."
                ELSE IF hits # {}
                THEN ss[1] \o ". " \o ss[Min(hits)] \o "."
                ELSE ss[1] \o ". " \o ss[2] \o "."

C13_Witness ==
    /\ unit.fn = "fallback" /\ "sentences" \in DOMAIN unit
    /\ unitOut.done /\ Len(unit.arg) > FallbackLimit
    /\ Len(unit.sentences) = 4
    /\ KeywordPlaces(unit.sentences) = {3, 4}
    /\ unit.sentences[3] # unit.sentences[4]
    /\ unitOut.value = unit.sentences[1] \o ". " \o unit.sentences[3] \o "."

-----------------------------------------------------------------------------
(* Claims about the global summarizer *)

\* C15: over any sequence of requests the global summarizer is
\* constructed at most once, by the first request; every later request
\* finds it built and leaves it as it is, so that a summarizer built
\* without a client keeps answering with the fallback.
C15_HandleBuiltOnce ==
    /\ built <= 1
    /\ summarizer.built <=> (built = 1)
    /\ summarizer.built => (summarizer.client <=> (apiKey /\ openaiAvail))
    /\ (phase = "returned") =>
           /\ summarizer.built
           /\ ~summarizer.client =>
                  /\ call.calls = 0
                  /\ result.value.summary = FallbackSummary(request.content)

\* a later request served by the summarizer that the first one built
\* without a client
C15_Witness ==
    /\ Returned /\ built = 1
    /\ ~call.constructed
    /\ ~summarizer.client
    /\ call.calls = 0
    /\ result.value.summary = FallbackSummary(request.content)

-----------------------------------------------------------------------------
(* Claims about the summaries endpoint *)

\* the user's stored notifications at or after the start of start_date
FromOnwards(user_email, start_date) ==
    {r \in RowsOf(store) :
        r.user_email = user_email /\ r.timestamp >= StartOfDay(start_date)}

\* C16: called with start_date only, the summaries endpoint lists the
\* user's stored notifications whose timestamp is at or after the start of
\* start_date, newest first, up to limit.
C16_StartDateOnwards ==
    (/\ listing.done /\ listing.date = NoDate
     /\ listing.start_date # NoDate /\ listing.end_date = NoDate) =>
        LET onwards == FromOnwards(listing.user_email, listing.start_date)
            q == listing.summaries
        IN  /\ Len(q) = Min({listing.limit, Cardinality(onwards)})
            /\ \A i \in 1..Len(q) : q[i] \in onwards
            /\ \A i, j \in 1..Len(q) : i < j =>
                   q[i] # q[j] /\ q[i].timestamp >= q[j].timestamp
            /\ \A r \in onwards : \A i \in 1..Len(q) :
                   (\A j \in 1..Len(q) : q[j] # r) => q[i].timestamp >= r.timestamp

====
